---- MODULE Spec2Model ----
(***************************************************************************)
(* A model of scripts/build_top10.py (the transformer) and                 *)
(* scripts/smoke_test.py (the query tool).                                 *)
(*                                                                         *)
(* A Python str is a sequence of characters; a character is a one-element  *)
(* token.  The Japanese characters the code tests for are written as       *)
(* romanised tokens:                                                       *)
(*   "dai" 大   "aza" 字   "kei" 計   "no" の   "sou" 総   "suu" 数          *)
(*   "fu" 不    "shou" 詳  "machi" 町 "chou" 丁 "ko" コ  "choon" ー  "do" ド *)
(*   "emdash" —  "hwdash" ｰ   "zsp" the full-width space                    *)
(* A missing CSV cell (pandas NaN) is the value NaN; a missing column       *)
(* value (None) is the value None.                                         *)
(***************************************************************************)
EXTENDS Integers, Sequences, FiniteSets, TLC

\* ------------------------------------------------------------------ bounds
\* The size of the transformer's input, its files plus their rows: of a run
\* over files of any rows, of a run over files of rows that differ in what
\* they add to, and of a run that is repeated.
MaxInput == 3
MaxInputSum == 4
MaxInputTwice == 4
\* The entries of the document the query tool loads.
MaxEntries == 22

\* --------------------------------------------------------- string utilities
NaN == <<"<nan>">>
None == <<"<none>">>

Whitespace == {" ", "zsp"}
Digits == {"0", "1", "2", "3", "4", "5", "6", "7", "8", "9"}

RECURSIVE LStrip(_)
LStrip(v) ==
  IF v = <<>> THEN v
  ELSE IF Head(v) \in Whitespace THEN LStrip(Tail(v)) ELSE v

RECURSIVE RStrip(_)
RStrip(v) ==
  IF v = <<>> THEN v
  ELSE IF v[Len(v)] \in Whitespace THEN RStrip(SubSeq(v, 1, Len(v) - 1)) ELSE v

\* str.strip()
Strip(v) == RStrip(LStrip(v))

\* str.startswith / str.endswith / the "in" operator on str
StartsWith(v, p) == Len(p) <= Len(v) /\ SubSeq(v, 1, Len(p)) = p
EndsWith(v, p) == Len(p) <= Len(v) /\ SubSeq(v, Len(v) - Len(p) + 1, Len(v)) = p
Contains(v, p) ==
  \E i \in 1..(Len(v) - Len(p) + 1) : SubSeq(v, i, i + Len(p) - 1) = p

\* v.replace(p, "", 1) for a v that starts with p
DropPrefix(v, p) == SubSeq(v, Len(p) + 1, Len(v))

\* v.replace(",", "")
RECURSIVE RemoveCommas(_)
RemoveCommas(v) ==
  IF v = <<>> THEN v
  ELSE IF Head(v) = "," THEN RemoveCommas(Tail(v))
       ELSE <<Head(v)>> \o RemoveCommas(Tail(v))

\* re.sub(r"\s+", " ", v): every maximal run of whitespace becomes one space
RECURSIVE CollapseSpaces(_)
CollapseSpaces(v) ==
  IF v = <<>> THEN v
  ELSE IF Head(v) \in Whitespace
       THEN <<" ">> \o CollapseSpaces(LStrip(v))
       ELSE <<Head(v)>> \o CollapseSpaces(Tail(v))

DigitVal(c) ==
  CASE c = "0" -> 0 [] c = "1" -> 1 [] c = "2" -> 2 [] c = "3" -> 3
    [] c = "4" -> 4 [] c = "5" -> 5 [] c = "6" -> 6 [] c = "7" -> 7
    [] c = "8" -> 8 [] c = "9" -> 9

RECURSIVE DigitsVal(_)
DigitsVal(v) ==
  IF v = <<>> THEN 0
  ELSE 10 * DigitsVal(SubSeq(v, 1, Len(v) - 1)) + DigitVal(v[Len(v)])

\* int(float(t)) for t over digits, sign, "." and other characters: float()
\* ignores surrounding whitespace and takes [sign] digits [. digits] with at
\* least one digit; int() truncates toward zero.  Anything else raises, which
\* the caller turns into 0.  FloatOk tells whether float(t) succeeds.
FloatBody(t) ==
  LET u == Strip(t)
  IN IF u # <<>> /\ Head(u) \in {"+", "-"} THEN Tail(u) ELSE u

FloatOk(t) ==
  LET b == FloatBody(t)
  IN /\ \A i \in 1..Len(b) : b[i] \in Digits \cup {"."}
     /\ Cardinality({i \in 1..Len(b) : b[i] = "."}) <= 1
     /\ \E i \in 1..Len(b) : b[i] \in Digits

IntOfFloat(t) ==
  LET u == Strip(t)
      b == FloatBody(t)
      dots == {i \in 1..Len(b) : b[i] = "."}
      whole == IF dots = {} THEN b
               ELSE SubSeq(b, 1, (CHOOSE i \in dots : TRUE) - 1)
      mag == DigitsVal(whole)
  IN IF Head(u) = "-" THEN 0 - mag ELSE mag

\* ------------------------------------------------------ build_top10.py: s
s(v) ==
  IF v = None THEN <<>>
  ELSE IF v = NaN THEN <<>>
  ELSE LET t == Strip(v)
       IN IF t \in {<<"-">>, <<"emdash">>, <<"hwdash">>} THEN <<>> ELSE t

\* ------------------------------------------------- build_top10.py: to_int
to_int(v) ==
  LET t == s(v)
  IN IF t = <<>> THEN 0
     ELSE LET u == RemoveCommas(t)
          IN IF FloatOk(u) THEN IntOfFloat(u) ELSE 0

\* --------------------------------------- build_top10.py: the row patterns
ChoCodeMarker == <<"machi", "chou", "aza", "ko", "choon", "do">>

\* RE_AGG_1.search(name): 町丁字コード, one or more digits, の計
RE_AGG_1(name) ==
  \E i \in 1..Len(name) : \E j \in i..Len(name) :
    /\ j - i + 1 >= Len(ChoCodeMarker) + 3
    /\ SubSeq(name, i, i + Len(ChoCodeMarker) - 1) = ChoCodeMarker
    /\ SubSeq(name, j - 1, j) = <<"no", "kei">>
    /\ \A k \in (i + Len(ChoCodeMarker))..(j - 2) : name[k] \in Digits

\* RE_AGG_2.search(name): the name ends with 計 (の計 included)
RE_AGG_2(name) == EndsWith(name, <<"no", "kei">>) \/ EndsWith(name, <<"kei">>)

\* RE_BAD.search(name): 総数 or 不詳 anywhere
RE_BAD(name) == Contains(name, <<"sou", "suu">>) \/ Contains(name, <<"fu", "shou">>)

\* is_aggregate_row without its last test, the trailing 計.
is_aggregate_row_no_trailing(raw) ==
  LET name == s(raw)
  IN name = <<>> \/ Contains(name, ChoCodeMarker) \/ RE_AGG_1(name) \/ RE_BAD(name)

is_aggregate_row(raw) ==
  LET name == s(raw)
  IN IF name = <<>> THEN TRUE
     ELSE IF Contains(name, ChoCodeMarker) THEN TRUE
     ELSE IF RE_AGG_1(name) THEN TRUE
     ELSE IF RE_BAD(name) THEN TRUE
     ELSE IF RE_AGG_2(name) THEN TRUE
     ELSE FALSE

\* ------------------------------------ build_top10.py: normalize_place_name
normalize_place_name(oaza_machi, aza_chome, strip_oaza) ==
  LET a0 == s(oaza_machi)
      b0 == s(aza_chome)
      a1 == IF strip_oaza /\ StartsWith(a0, <<"dai", "aza">>)
            THEN Strip(DropPrefix(a0, <<"dai", "aza">>)) ELSE a0
      a == IF strip_oaza /\ StartsWith(a1, <<"aza">>)
           THEN Strip(DropPrefix(a1, <<"aza">>)) ELSE a1
      b == IF strip_oaza /\ StartsWith(b0, <<"aza">>)
           THEN Strip(DropPrefix(b0, <<"aza">>)) ELSE b0
      name == IF a # <<>> /\ b # <<>> THEN Strip(a \o <<" ">> \o b)
              ELSE IF a # <<>> THEN a ELSE b
  IN IF a0 = <<>> /\ b0 = <<>> THEN <<>>
     ELSE Strip(CollapseSpaces(name))

\* ------------------------------------------------------------ the inputs
\* A CSV row as pandas hands it over (dtype=str): each cell is a str or NaN.
Row(pref, city, oaza, aza, pop, level, code) ==
  [pref |-> pref, city |-> city, oaza |-> oaza, aza |-> aza,
   pop |-> pop, level |-> level, code |-> code]

P == <<"P">>
C == <<"C">>
DaiAzaX == <<"dai", "aza", "X">>
AzaY == <<"aza", "Y">>
Pop1000 == <<"1", ",", "0", "0", "0">>
Pop500 == <<"5", "0", "0">>
L3 == <<"3">>
Code1 == <<"0", "0", "1">>

\* The rows a file may hold: a kept row and its variations, one per rule of
\* the loop body.
Rows ==
  { Row(P, C, DaiAzaX, AzaY, Pop1000, L3, Code1),
    Row(P, C, <<" ", "X">>, <<"Y", "zsp">>, Pop500, <<"3", ".", "0">>, Code1),
    Row(P, C, DaiAzaX, <<"Z">>, Pop500, L3, Code1),
    Row(P, C, DaiAzaX, NaN, Pop1000, L3, Code1),
    Row(P, C, DaiAzaX, NaN, Pop500, L3, Code1),
    Row(P, C, DaiAzaX, AzaY, Pop1000, <<"2">>, Code1),
    Row(P, C, DaiAzaX, AzaY, Pop1000, <<"x">>, Code1),
    Row(P, C, DaiAzaX, AzaY, Pop500, <<"4">>, Code1),
    Row(P, C, DaiAzaX, AzaY, Pop1000, L3, <<"-">>),
    Row(P, C, <<"X", "no", "kei">>, AzaY, Pop1000, L3, Code1),
    Row(P, C, DaiAzaX, <<"sou", "suu">>, Pop1000, L3, Code1),
    Row(P, C, <<"X">>, <<"Y", "fu", "shou">>, Pop1000, L3, Code1),
    Row(P, C, ChoCodeMarker \o <<"1", "2">>, AzaY, Pop1000, L3, Code1),
    Row(P, C, DaiAzaX, AzaY, <<"-", "5">>, L3, Code1),
    Row(P, C, DaiAzaX, AzaY, <<"1", "x">>, L3, Code1),
    Row(NaN, C, DaiAzaX, AzaY, Pop1000, L3, Code1),
    Row(P, <<" ">>, DaiAzaX, AzaY, Pop1000, L3, Code1),
    Row(<<"P", ":", ":", "Q">>, C, DaiAzaX, AzaY, Pop1000, L3, Code1),
    Row(P, <<"Q", ":", ":", "C">>, <<"X">>, <<"1", "chou">>, <<"1", "2", ".", "7">>,
        L3, Code1) }

\* Rows that pass every rule under some command line, and one that passes
\* under none: they differ in the key and the amount they add.
SumRows ==
  { Row(P, C, DaiAzaX, AzaY, Pop1000, L3, Code1),
    Row(P, C, <<" ", "X">>, <<"Y", "zsp">>, Pop500, <<"3", ".", "0">>, Code1),
    Row(P, C, DaiAzaX, <<"Z">>, Pop500, L3, Code1),
    Row(P, C, DaiAzaX, AzaY, Pop500, <<"4">>, Code1),
    Row(P, C, DaiAzaX, AzaY, <<"-", "5">>, L3, Code1),
    Row(P, <<"Q", ":", ":", "C">>, <<"X">>, <<"1", "chou">>, <<"1", "2", ".", "7">>,
        L3, Code1) }

\* What opening a file yields: a table with the needed columns, an exception
\* from read_csv, or a table that lacks a needed column.
FileKinds == {"ok", "unreadable", "nocols"}

\* --topn is any int; --strip_oaza and --keep_level4 are flags.
DefaultTopN == 10
TopNs == {0 - 1, 1, DefaultTopN}
Args == [topn : TopNs, strip_oaza : BOOLEAN, keep_level4 : BOOLEAN]

Reasons ==
  {"level<=2", "level>=4_removed", "cho_code_empty", "aggregate_like",
   "pop<=0", "missing_pref_city_name"}

\* --------------------------------------------- main: the body of the row loop
\* The verdict of lines 144-182 on one row: "ok" or the drop reason.
Verdict(row, a) ==
  LET pref == s(row.pref)
      city == s(row.city)
      level == s(row.level)
      cho_code == s(row.code)
      lvl == to_int(level)
      oaza == s(row.oaza)
      aza == s(row.aza)
      name == normalize_place_name(oaza, aza, a.strip_oaza)
      pop == to_int(row.pop)
  IN IF lvl <= 2 THEN "level<=2"
     ELSE IF ~a.keep_level4 /\ lvl >= 4 THEN "level>=4_removed"
     ELSE IF cho_code = <<>> THEN "cho_code_empty"
     ELSE IF is_aggregate_row(name) \/ is_aggregate_row(oaza) \/ is_aggregate_row(aza)
          THEN "aggregate_like"
     ELSE IF pop <= 0 THEN "pop<=0"
     ELSE IF pref = <<>> \/ city = <<>> \/ name = <<>> THEN "missing_pref_city_name"
     ELSE "ok"

\* The aggregation key and the amount of line 184.
KeyOf(row, a) ==
  [pref |-> s(row.pref), city |-> s(row.city),
   name |-> normalize_place_name(s(row.oaza), s(row.aza), a.strip_oaza)]

\* The bucket with "=" in place of "+=": a later row overwrites an earlier one.
BucketAssign(b, key, pop) ==
  IF \E i \in 1..Len(b) : b[i].key = key
  THEN [i \in 1..Len(b) |-> IF b[i].key = key THEN [key |-> key, pop |-> pop] ELSE b[i]]
  ELSE Append(b, [key |-> key, pop |-> pop])

\* bucket[(pref, city, name)] += pop on a dict that keeps insertion order:
\* the bucket is the sequence of its items.
BucketAdd(b, key, pop) ==
  IF \E i \in 1..Len(b) : b[i].key = key
  THEN [i \in 1..Len(b) |->
          IF b[i].key = key THEN [key |-> key, pop |-> b[i].pop + pop] ELSE b[i]]
  ELSE Append(b, [key |-> key, pop |-> pop])

\* What the loop body does to the bucket: line 184 for a kept row, nothing
\* for a dropped one.
RowStep(b, row, a) ==
  IF Verdict(row, a) = "ok" THEN BucketAdd(b, KeyOf(row, a), to_int(row.pop)) ELSE b

\* ------------------------------------------------------ main: lines 190-206
\* city_map: (pref, city) -> [(name, pop)], keys in first-appearance order.
RECURSIVE CityMap(_)
CityMap(b) ==
  IF b = <<>> THEN <<>>
  ELSE LET m == CityMap(SubSeq(b, 1, Len(b) - 1))
           x == b[Len(b)]
           item == [name |-> x.key.name, pop |-> x.pop]
       IN IF \E i \in 1..Len(m) : m[i].pref = x.key.pref /\ m[i].city = x.key.city
          THEN [i \in 1..Len(m) |->
                  IF m[i].pref = x.key.pref /\ m[i].city = x.key.city
                  THEN [m[i] EXCEPT !.items = Append(@, item)] ELSE m[i]]
          ELSE Append(m, [pref |-> x.key.pref, city |-> x.key.city, items |-> <<item>>])

\* items.sort(key=lambda x: x[1], reverse=True): stable, population descending.
RECURSIVE SortDesc(_)
SortDesc(items) ==
  IF items = <<>> THEN <<>>
  ELSE LET front == SortDesc(SubSeq(items, 1, Len(items) - 1))
           x == items[Len(items)]
           k == Cardinality({i \in 1..Len(front) : front[i].pop >= x.pop})
       IN SubSeq(front, 1, k) \o <<x>> \o SubSeq(front, k + 1, Len(front))

\* items[:n] with Python's slice: a negative n counts from the end.
Slice(items, n) ==
  IF n >= 0 THEN SubSeq(items, 1, IF n < Len(items) THEN n ELSE Len(items))
  ELSE SubSeq(items, 1, Len(items) + n)

\* f"{pref}::{city}"
CompositeKey(pref, city) == pref \o <<":", ":">> \o city

\* out[key] = entry on a dict that keeps insertion order.
DictPut(d, key, entry) ==
  IF \E i \in 1..Len(d) : d[i].key = key
  THEN [i \in 1..Len(d) |-> IF d[i].key = key THEN entry ELSE d[i]]
  ELSE Append(d, entry)

RECURSIVE OutOf(_, _)
OutOf(m, topn) ==
  IF m = <<>> THEN <<>>
  ELSE LET e == m[Len(m)]
           top_items == Slice(SortDesc(e.items), topn)
           key == CompositeKey(e.pref, e.city)
       IN DictPut(OutOf(SubSeq(m, 1, Len(m) - 1), topn), key,
                  [key |-> key, pref |-> e.pref, city |-> e.city, areas |-> top_items])

BuildOut(b, topn) == OutOf(CityMap(b), topn)

\* ------------------------------------------------------------------ state
VARIABLES
  args,         \* the parsed command line of the transformer
  disk,         \* the files the glob matches, in sorted path order, as far as
                \* a run has read them: <<[kind, rows]>>
  pool,         \* the rows the files may hold
  budget,       \* the files and rows of the input not yet read by any run
  run,          \* 1: first run of the transformer, 2: a second run on the same files
  pc,           \* where main is
  fi,           \* the file the loop of line 124 is at (0: none yet)
  ri,           \* the rows of that file the loop of line 143 has taken
  bucket,       \* (pref, city, name) -> pop, in insertion order
  used_csv,
  skipped_csv,
  drop_reason,
  out,          \* the document, in insertion order
  out_json,     \* the documents written to args.out_json, one per run
  web_json,     \* the documents written to the mirror
  qpc,          \* where the query tool is
  artifact,     \* out/areas_top10.json as the query tool finds it: <<>> or <<document>>
  data,         \* the loaded document
  index,        \* city -> [code, ...], in insertion order
  line,         \* what input() returned last
  q,            \* the stripped line being handled
  shown         \* what the last line made the tool print

tvars == <<args, disk, pool, budget, run, pc, fi, ri, bucket, used_csv, skipped_csv, drop_reason,
           out, out_json, web_json>>
qvars == <<qpc, artifact, data, index, line, q, shown>>
vars == <<tvars, qvars>>

NoDrops == [r \in Reasons |-> 0]
\* Nothing printed; Printed: what a line made the tool print.
Printed(kind, code, head, names, picks) ==
  [kind |-> kind, code |-> code, head |-> head, names |-> names, picks |-> picks]
Nothing == Printed("none", <<>>, <<>>, <<>>, {})
NoLine == <<"<no line>">>
EOF == <<"<eof>">>

\* ----------------------------------------------------------- the transformer
\* The query tool is not running while the transformer is modelled.
QueryIdle ==
  /\ qpc = "off" /\ artifact = <<>> /\ data = <<>> /\ index = <<>>
  /\ line = NoLine /\ q = <<>> /\ shown = Nothing

InitRun ==
  /\ args \in Args
  /\ disk = <<>>
  /\ run = 1
  /\ pc = "start"
  /\ fi = 0 /\ ri = 0
  /\ bucket = <<>>
  /\ used_csv = 0 /\ skipped_csv = 0
  /\ drop_reason = NoDrops
  /\ out = <<>>
  /\ out_json = <<>> /\ web_json = <<>>
  /\ QueryIdle

Init == InitRun /\ pool = Rows /\ budget = MaxInput
InitSum == InitRun /\ pool = SumRows /\ budget = MaxInputSum
InitTwice == InitRun /\ pool = SumRows /\ budget = MaxInputTwice

\* A bucket that outlives the run.
KeptBucket(prev) == prev

\* bucket = defaultdict(int), line 116.
NewBucket(prev) == <<>>

\* Lines 110-122 when the glob matches nothing: only a first run learns it.
GlobEmpty ==
  /\ pc = "start" /\ disk = <<>> /\ run = 1
  /\ pc' = "fatal_nofiles"
  /\ UNCHANGED <<args, disk, pool, budget, run, fi, ri, bucket, used_csv, skipped_csv, drop_reason,
                 out, out_json, web_json>>
  /\ UNCHANGED qvars

\* Lines 110-122 when the glob matches files.
GlobFiles ==
  /\ pc = "start"
  /\ run = 2 => disk # <<>>
  /\ pc' = "files"
  /\ fi' = 0 /\ ri' = 0
  /\ bucket' = NewBucket(bucket)
  /\ used_csv' = 0 /\ skipped_csv' = 0
  /\ drop_reason' = NoDrops
  /\ UNCHANGED <<args, disk, pool, budget, run, out, out_json, web_json>>
  /\ UNCHANGED qvars

\* Lines 124-141: the next file is opened.  A first run finds out what the
\* file is; a second run finds the file the first one found.
OpenFile(kind) ==
  /\ pc = "files"
  /\ IF fi < Len(disk)
     THEN disk[fi + 1].kind = kind /\ disk' = disk /\ budget' = budget
     ELSE /\ run = 1 /\ budget > 0
          /\ disk' = Append(disk, [kind |-> kind, rows |-> <<>>])
          /\ budget' = budget - 1
  /\ fi' = fi + 1
  /\ ri' = 0
  /\ IF kind = "ok"
     THEN used_csv' = used_csv + 1 /\ skipped_csv' = skipped_csv /\ pc' = "rows"
     ELSE used_csv' = used_csv /\ skipped_csv' = skipped_csv + 1 /\ pc' = "files"
  /\ UNCHANGED <<args, pool, run, bucket, drop_reason, out, out_json, web_json>>
  /\ UNCHANGED qvars

\* Lines 143-184 on one row.
TakeRow(row) ==
  /\ bucket' = RowStep(bucket, row, args)
  /\ drop_reason' = IF Verdict(row, args) = "ok" THEN drop_reason
                    ELSE [drop_reason EXCEPT ![Verdict(row, args)] = @ + 1]
  /\ ri' = ri + 1

ReadRow ==
  /\ pc = "rows"
  /\ IF ri < Len(disk[fi].rows)
     THEN TakeRow(disk[fi].rows[ri + 1]) /\ disk' = disk /\ budget' = budget
     ELSE /\ run = 1 /\ budget > 0
          /\ \E row \in pool :
               /\ TakeRow(row)
               /\ disk' = [disk EXCEPT ![fi].rows = Append(@, row)]
          /\ budget' = budget - 1
  /\ UNCHANGED <<args, pool, run, pc, fi, used_csv, skipped_csv, out, out_json, web_json>>
  /\ UNCHANGED qvars

\* The row loop of line 143 is exhausted.
EndRows ==
  /\ pc = "rows"
  /\ ri = Len(disk[fi].rows)
  /\ pc' = "files"
  /\ UNCHANGED <<args, disk, pool, budget, run, fi, ri, bucket, used_csv, skipped_csv, drop_reason,
                 out, out_json, web_json>>
  /\ UNCHANGED qvars

\* The file loop is exhausted: lines 186-226.  The run fails when no file was
\* usable; otherwise the document is built and written.  makedirs and the
\* write of the document may raise; the mirror write is tried and its failure
\* swallowed.
Finish(primary_ok, mirror_ok) ==
  /\ pc = "files"
  /\ fi = Len(disk) /\ fi >= 1
  /\ IF used_csv = 0
     THEN /\ pc' = "fatal_nousable"
          /\ UNCHANGED <<out, out_json, web_json>>
     ELSE /\ out' = BuildOut(bucket, args.topn)
          /\ IF primary_ok
             THEN /\ out_json' = Append(out_json, out')
                  /\ web_json' = IF mirror_ok THEN Append(web_json, out') ELSE web_json
                  /\ pc' = "done"
             ELSE /\ UNCHANGED <<out_json, web_json>>
                  /\ pc' = "fatal_write"
  /\ UNCHANGED <<args, disk, pool, budget, run, fi, ri, bucket, used_csv, skipped_csv,
                 drop_reason>>
  /\ UNCHANGED qvars

\* The transformer is run once more with the same options on the same files.
Rerun ==
  /\ pc = "done" /\ run = 1
  /\ run' = 2
  /\ pc' = "start"
  /\ UNCHANGED <<args, disk, pool, budget, fi, ri, bucket, used_csv, skipped_csv, drop_reason,
                 out, out_json, web_json>>
  /\ UNCHANGED qvars

Next ==
  \/ GlobEmpty
  \/ GlobFiles
  \/ \E kind \in FileKinds : OpenFile(kind)
  \/ ReadRow
  \/ EndRows
  \/ \E primary_ok, mirror_ok \in BOOLEAN : Finish(primary_ok, mirror_ok)

\* One run of the transformer.
Spec == Init /\ [][Next]_vars

\* One run of the transformer over more and longer files of fewer rows.
SpecSum == InitSum /\ [][Next]_vars

\* A run of the transformer and a second one on the same files.
NextTwice == Next \/ Rerun
SpecTwice == InitTwice /\ [][NextTwice]_vars

\* ------------------------------------------------------------ the query tool
\* The documents out/areas_top10.json may hold: n entries in document order.
\* The first two share a city name under two prefectures; the names of the
\* others are all different; every name holds an "S".
Letters == <<"a", "b", "c", "d", "e">>
CityName(k) ==
  <<Letters[(((k - 1) \div 5) % 5) + 1], "S", Letters[((k - 1) % 5) + 1]>>
AreaPool ==
  << [name |-> <<"X", " ", "Y">>, pop |-> 1500], [name |-> <<"Z">>, pop |-> 500],
     [name |-> <<"W">>, pop |-> 500], [name |-> <<"V">>, pop |-> 12] >>
Entry(i) ==
  LET pref == IF i = 2 THEN <<"P", "2">> ELSE <<"P", "1">>
      city == CityName(IF i = 1 THEN 1 ELSE i - 1)
  IN [key |-> CompositeKey(pref, city), pref |-> pref, city |-> city,
      areas |-> SubSeq(AreaPool, 1, i % 5)]
Doc(n) == [i \in 1..n |-> Entry(i)]
Artifacts == {<<>>} \cup {<<Doc(n)>> : n \in 0..MaxEntries}

\* The lines the operator may enter.
Lines ==
  { <<>>, <<" ", "zsp">>,
    <<"q">>, <<" ", "Q">>, <<"Q", "u", "I", "t">>, <<"e", "x", "i", "t", " ">>,
    <<"E", "X", "I", "T">>,
    <<"q", "q">>, <<"q", " ", "q">>,
    <<"a", "S", "a">>, <<" ", "a", "S", "b", "zsp">>, <<"a", "S", "c">>,
    <<"a", "S", "d">>,
    <<"S">>, <<"a", "S">>, <<"d", "S">>, <<"a", "s", "a">>, <<"z">> }

\* str.lower() on the characters of the lines.
LowerChar(c) ==
  CASE c = "Q" -> "q" [] c = "U" -> "u" [] c = "I" -> "i" [] c = "T" -> "t"
    [] c = "E" -> "e" [] c = "X" -> "x" [] c = "S" -> "s"
    [] OTHER -> c
Lower(v) == [i \in 1..Len(v) |-> LowerChar(v[i])]

QuitTokens == {<<"q">>, <<"q", "u", "i", "t">>, <<"e", "x", "i", "t">>}

\* The quit test without lower().
IsQuitAsTyped(v) == v \in QuitTokens

\* q.lower() in ["q", "quit", "exit"], line 27.
IsQuit(v) == Lower(v) \in QuitTokens

\* Lines 16-20: index.setdefault(city, []).append(code) over the document.
RECURSIVE BuildIndex(_)
BuildIndex(d) ==
  IF d = <<>> THEN <<>>
  ELSE LET ix == BuildIndex(SubSeq(d, 1, Len(d) - 1))
           v == d[Len(d)]
       IN IF v.city = <<>> THEN ix
          ELSE IF \E i \in 1..Len(ix) : ix[i].city = v.city
          THEN [i \in 1..Len(ix) |->
                  IF ix[i].city = v.city
                  THEN [ix[i] EXCEPT !.codes = Append(@, v.key)] ELSE ix[i]]
          ELSE Append(ix, [city |-> v.city, codes |-> <<v.key>>])

\* index.get(q), line 30: the codes, or <<>> for None.
IndexGet(ix, name) ==
  IF \E i \in 1..Len(ix) : ix[i].city = name
  THEN ix[CHOOSE i \in 1..Len(ix) : ix[i].city = name].codes
  ELSE <<>>

\* [k for k in index.keys() if q in k], line 33.
RECURSIVE Candidates(_, _)
Candidates(ix, name) ==
  IF ix = <<>> THEN <<>>
  ELSE LET rest == Candidates(SubSeq(ix, 1, Len(ix) - 1), name)
           k == ix[Len(ix)].city
       IN IF Contains(k, name) THEN Append(rest, k) ELSE rest

ListLimit == 20

\* The candidates printed without the cut.
ListedAll(candidates) == candidates

\* candidates[:20], line 36.
Listed(candidates) == Slice(candidates, ListLimit)

\* codes[0], line 42.
FirstCode(codes) == codes[1]

\* data[code], lines 43-48.
DataGet(d, code) == d[CHOOSE i \in 1..Len(d) : d[i].key = code]

\* random.sample(areas, k=min(3, len(areas))): any k different positions.
SampleSize == 3
Samples(areas) ==
  LET k == IF Len(areas) < SampleSize THEN Len(areas) ELSE SampleSize
  IN {ps \in SUBSET (1..Len(areas)) : Cardinality(ps) = k}

TransformerIdle ==
  /\ args = [topn |-> DefaultTopN, strip_oaza |-> FALSE, keep_level4 |-> FALSE]
  /\ disk = <<>> /\ pool = {} /\ budget = 0 /\ run = 1 /\ pc = "off"
  /\ fi = 0 /\ ri = 0 /\ bucket = <<>>
  /\ used_csv = 0 /\ skipped_csv = 0 /\ drop_reason = NoDrops
  /\ out = <<>> /\ out_json = <<>> /\ web_json = <<>>

QueryInit ==
  /\ TransformerIdle
  /\ qpc = "start"
  /\ artifact \in Artifacts
  /\ data = <<>> /\ index = <<>>
  /\ line = NoLine /\ q = <<>> /\ shown = Nothing

\* Lines 9-10: the artifact is absent.
LoadMissing ==
  /\ qpc = "start" /\ artifact = <<>>
  /\ qpc' = "fatal_missing"
  /\ UNCHANGED <<artifact, data, index, line, q, shown>>
  /\ UNCHANGED tvars

\* Lines 12-22: the document is loaded and indexed.
Load ==
  /\ qpc = "start" /\ artifact # <<>>
  /\ data' = artifact[1]
  /\ index' = BuildIndex(data')
  /\ qpc' = "prompt"
  /\ UNCHANGED <<artifact, line, q, shown>>
  /\ UNCHANGED tvars

\* Lines 24-51: one line is read and handled.
EnterLine(ln) ==
  /\ qpc = "prompt"
  /\ line' = ln
  /\ q' = Strip(ln)
  /\ IF q' = <<>>
     THEN qpc' = "prompt" /\ shown' = Nothing
     ELSE IF IsQuit(q')
     THEN qpc' = "exited" /\ shown' = Nothing
     ELSE LET codes == IndexGet(index, q')
              candidates == Candidates(index, q')
          IN /\ qpc' = "prompt"
             /\ IF codes = <<>>
                THEN IF candidates # <<>>
                     THEN shown' = Printed("candidates", <<>>, <<>>, Listed(candidates), {})
                     ELSE shown' = Printed("notfound", <<>>, <<>>, <<>>, {})
                ELSE LET code == FirstCode(codes)
                         e == DataGet(data, code)
                     IN \E ps \in Samples(e.areas) :
                          shown' = Printed("entry", code,
                                           <<e.pref, e.city, Len(e.areas)>>, <<>>,
                                           {e.areas[i] : i \in ps})
  /\ UNCHANGED <<artifact, data, index>>
  /\ UNCHANGED tvars

\* Line 24 at end-of-input: input() raises EOFError, which nothing catches.
EndOfInput ==
  /\ qpc = "prompt"
  /\ line' = EOF
  /\ qpc' = "eof_error"
  /\ UNCHANGED <<artifact, data, index, q, shown>>
  /\ UNCHANGED tvars

QueryNext ==
  \/ LoadMissing
  \/ Load
  \/ \E ln \in Lines : EnterLine(ln)
  \/ EndOfInput

\* The query tool on an artifact.
QuerySpec == QueryInit /\ [][QueryNext]_vars

\* ===================================================================== claims
\* The rows the running transformer has taken so far, in the order taken.
RowsRead ==
  LET RECURSIVE Cat(_)
      Cat(i) == IF i = 0 THEN <<>>
                ELSE Cat(i - 1) \o (IF i < fi THEN disk[i].rows
                                    ELSE SubSeq(disk[i].rows, 1, ri))
  IN Cat(fi)

Finished == pc = "done"

\* A name that matches a summary-row pattern, as the claims word it.
SummaryName(v) ==
  \/ v = <<>>
  \/ Contains(v, ChoCodeMarker)
  \/ Contains(v, <<"sou", "suu">>)
  \/ Contains(v, <<"fu", "shou">>)
  \/ EndsWith(v, <<"kei">>)

\* The rows C1 says contribute nothing.
SaidDiscarded(row, a) ==
  LET lvl == to_int(row.level)
      name == normalize_place_name(row.oaza, row.aza, a.strip_oaza)
  IN \/ lvl <= 2
     \/ lvl >= 4 /\ ~a.keep_level4
     \/ s(row.code) = <<>>
     \/ SummaryName(name) \/ SummaryName(s(row.oaza)) \/ SummaryName(s(row.aza))
     \/ to_int(row.pop) <= 0
     \/ s(row.pref) = <<>> \/ s(row.city) = <<>> \/ name = <<>>

RECURSIVE Without(_, _)
Without(rows, a) ==
  IF rows = <<>> THEN <<>>
  ELSE IF SaidDiscarded(Head(rows), a) THEN Without(Tail(rows), a)
       ELSE <<Head(rows)>> \o Without(Tail(rows), a)

\* The bucket the loop body builds from a sequence of rows.
RECURSIVE Fold(_, _)
Fold(rows, a) ==
  IF rows = <<>> THEN <<>>
  ELSE RowStep(Fold(SubSeq(rows, 1, Len(rows) - 1), a), rows[Len(rows)], a)

\* C1: a row with level <= 2, or level >= 4 without keep_level4, or an empty
\* area code, or a display name or name fragment that matches a summary-row
\* pattern, or a parsed population <= 0, or an empty prefecture, municipality
\* or display name contributes nothing: when the run has finished, the bucket
\* is the bucket of the rows read with those rows left out, and the document
\* is the document built from it.
C1_DiscardedRowsContributeNothing ==
  Finished =>
    LET b == Fold(Without(RowsRead, args), args)
    IN bucket = b /\ out = BuildOut(b, args.topn)

C1_Witness ==
  /\ Finished
  /\ out # <<>>
  /\ \E i \in 1..Len(RowsRead) : SaidDiscarded(RowsRead[i], args)
  /\ \E i \in 1..Len(RowsRead) : ~SaidDiscarded(RowsRead[i], args)

\* The sum of the parsed populations of the kept rows with a given key.
RECURSIVE SumOfKey(_, _, _)
SumOfKey(rows, key, a) ==
  IF rows = <<>> THEN 0
  ELSE SumOfKey(Tail(rows), key, a)
       + (IF Verdict(Head(rows), a) = "ok" /\ KeyOf(Head(rows), a) = key
          THEN to_int(Head(rows).pop) ELSE 0)

\* C2: every area {name, pop} of the document, under municipality (pref,
\* city), has as pop the sum of the parsed populations of all kept rows of all
\* used files whose key is (pref, city, name).
C2_PopIsExactSum ==
  Finished =>
    \A i \in 1..Len(out) : \A j \in 1..Len(out[i].areas) :
      out[i].areas[j].pop =
        SumOfKey(RowsRead,
                 [pref |-> out[i].pref, city |-> out[i].city,
                  name |-> out[i].areas[j].name], args)

\* Two kept rows of two different files share a key that is in the document.
C2_Witness ==
  /\ Finished
  /\ Len(disk) >= 2
  /\ \E f \in 1..Len(disk) : \E g \in 1..Len(disk) :
       /\ f < g /\ disk[f].rows # <<>> /\ disk[g].rows # <<>>
       /\ Verdict(disk[f].rows[1], args) = "ok"
       /\ Verdict(disk[g].rows[1], args) = "ok"
       /\ KeyOf(disk[f].rows[1], args) = KeyOf(disk[g].rows[1], args)
       /\ \E i \in 1..Len(out) : \E j \in 1..Len(out[i].areas) :
            /\ out[i].pref = KeyOf(disk[f].rows[1], args).pref
            /\ out[i].city = KeyOf(disk[f].rows[1], args).city
            /\ out[i].areas[j].name = KeyOf(disk[f].rows[1], args).name
            /\ out[i].areas[j].pop = 1500

NonIncreasing(areas) ==
  \A i \in 1..Len(areas) : \A j \in 1..Len(areas) :
    i < j => areas[i].pop >= areas[j].pop

\* C3: for every --topn value N the command line accepts, every entry of the
\* document has at most N areas, and their populations are non-increasing.
C3_AtMostTopNAndSorted ==
  Finished =>
    \A i \in 1..Len(out) :
      Len(out[i].areas) <= args.topn /\ NonIncreasing(out[i].areas)

\* The two rows of the example of C4: broader name 大字X, no finer name.
ExampleRows ==
  { Row(P, C, DaiAzaX, NaN, Pop1000, L3, Code1),
    Row(P, C, DaiAzaX, NaN, Pop500, L3, Code1) }

HasArea(pref, city, name, pop) ==
  \E i \in 1..Len(out) :
    /\ out[i].pref = pref /\ out[i].city = city
    /\ \E j \in 1..Len(out[i].areas) :
         out[i].areas[j] = [name |-> name, pop |-> pop]

\* C4: with --strip_oaza, the two rows 大字X / no finer name / level 3 /
\* populations "1,000" and "500" give one area "X" with population 1500; and
\* a row with exactly one non-empty name fragment that passes the other rules
\* is kept under the display name built from that fragment.
C4_OneFragmentRowsAreKept ==
  /\ (/\ Finished /\ args.strip_oaza /\ args.topn >= 1
      /\ {RowsRead[i] : i \in 1..Len(RowsRead)} = ExampleRows
      /\ Len(RowsRead) = 2)
       => HasArea(P, C, <<"X">>, 1500)
  /\ \A i \in 1..Len(RowsRead) :
       LET r == RowsRead[i]
           one == (s(r.oaza) = <<>>) # (s(r.aza) = <<>>)
           name == normalize_place_name(r.oaza, r.aza, args.strip_oaza)
           others_pass ==
             /\ to_int(r.level) >= 3
             /\ to_int(r.level) <= 3 \/ args.keep_level4
             /\ s(r.code) # <<>>
             /\ ~SummaryName(name)
             /\ to_int(r.pop) > 0
             /\ s(r.pref) # <<>> /\ s(r.city) # <<>>
       IN one /\ others_pass =>
            /\ Verdict(r, args) = "ok"
            /\ \E k \in 1..Len(bucket) : bucket[k].key = KeyOf(r, args)

\* The kept rows' (prefecture, municipality) pairs.
KeptPairs ==
  {<<KeyOf(RowsRead[i], args).pref, KeyOf(RowsRead[i], args).city>> :
     i \in {k \in 1..Len(RowsRead) : Verdict(RowsRead[k], args) = "ok"}}

\* The aggregated areas of a pair, in the bucket's order.
RECURSIVE AreasOf(_, _, _)
AreasOf(b, pref, city) ==
  IF b = <<>> THEN <<>>
  ELSE LET x == b[Len(b)]
           front == AreasOf(SubSeq(b, 1, Len(b) - 1), pref, city)
       IN IF x.key.pref = pref /\ x.key.city = city
          THEN Append(front, [name |-> x.key.name, pop |-> x.pop]) ELSE front

Position(items, x) == CHOOSE i \in 1..Len(items) : items[i] = x
Among(items, x) == \E i \in 1..Len(items) : items[i] = x
Before(items, x, y) ==
  x.pop > y.pop \/ (x.pop = y.pop /\ Position(items, x) < Position(items, y))

\* C6: for every municipality the areas are the first min(N, count) elements
\* of the stable population-descending order of its aggregated areas: no
\* omitted area comes before an included one, and of two areas of equal
\* population the one inserted first comes first.
C6_StableTopN ==
  Finished =>
    \A i \in 1..Len(out) :
      LET items == AreasOf(bucket, out[i].pref, out[i].city)
          areas == out[i].areas
          n == IF args.topn < Len(items) THEN args.topn ELSE Len(items)
      IN /\ Len(areas) = (IF n < 0 THEN 0 ELSE n)
         /\ \A j \in 1..Len(areas) : Among(items, areas[j])
         /\ \A j \in 1..Len(areas) : \A k \in 1..Len(areas) :
              j < k => Before(items, areas[j], areas[k])
         /\ \A j \in 1..Len(items) :
              ~Among(areas, items[j]) =>
                \A k \in 1..Len(areas) : Before(items, areas[k], items[j])

\* C9: a second run with the same options on the same files writes a document
\* with the same composite keys and, for each key, the same entry as the
\* first run's.
C9_RerunSameDocument ==
  (run = 2 /\ pc \in {"done", "fatal_write"}) =>
    {out[i] : i \in 1..Len(out)} = {out_json[1][i] : i \in 1..Len(out_json[1])}

C9_Witness ==
  /\ run = 2 /\ Finished
  /\ Len(out_json) = 2
  /\ \E i \in 1..Len(out) : Len(out[i].areas) >= 1

\* C10: every (prefecture, municipality) pair with a kept row has its own
\* entry in the document, with that pref and city and areas drawn from that
\* pair's aggregated areas, whatever the strings are.
C10_EveryPairHasItsEntry ==
  Finished =>
    \A pr \in KeptPairs :
      \E i \in 1..Len(out) :
        /\ out[i].pref = pr[1] /\ out[i].city = pr[2]
        /\ \A j \in 1..Len(out[i].areas) :
             Among(AreasOf(bucket, pr[1], pr[2]), out[i].areas[j])

\* ------------------------------------------------------ claims, query tool
UpperChar(c) ==
  CASE c = "q" -> "Q" [] c = "u" -> "U" [] c = "i" -> "I" [] c = "t" -> "T"
    [] c = "e" -> "E" [] c = "x" -> "X"

\* A quit token in any letter case, surrounding whitespace ignored.
SaidQuit(ln) ==
  LET v == Strip(ln)
  IN \E tok \in QuitTokens :
       /\ Len(v) = Len(tok)
       /\ \A i \in 1..Len(tok) : v[i] \in {tok[i], UpperChar(tok[i])}

IsLine(ln) == ln # NoLine /\ ln # EOF
SaidBlank(ln) == \A i \in 1..Len(ln) : ln[i] \in Whitespace

\* The entries of the document whose city is the name, and those whose city
\* holds the name.
ExactAt(d, name) == {i \in 1..Len(d) : d[i].city = name}
HoldingAt(d, name) == {i \in 1..Len(d) : d[i].city # <<>> /\ Contains(d[i].city, name)}
Least(S) == CHOOSE i \in S : \A j \in S : i <= j

\* C5: the only fatal ends are, for the transformer, no file matched or no
\* file usable, and for the query tool, the artifact absent; nothing else,
\* end-of-input and a failed write included, ends a run fatally.
C5_OnlyTheNamedFatalEnds ==
  /\ pc \in {"fatal_nofiles", "fatal_nousable", "fatal_write"}
       => pc \in {"fatal_nofiles", "fatal_nousable"}
  /\ qpc \in {"fatal_missing", "eof_error"}
       => qpc = "fatal_missing" /\ artifact = <<>>

\* C7: a non-blank, non-quit query that is a municipality name of the
\* document resolves to the first entry of that name in document order and
\* shows its data; otherwise, if some name holds the query, at most 20 names
\* are listed, each holding the query, and none is resolved; otherwise the
\* tool says not found.  The document and the index stay as loaded.
C7_QueryOutcome ==
  /\ qpc \in {"prompt", "exited", "eof_error"}
       => data = artifact[1] /\ index = BuildIndex(artifact[1])
  /\ (qpc = "prompt" /\ IsLine(line) /\ ~SaidBlank(line) /\ ~SaidQuit(line)) =>
       LET name == Strip(line)
           exact == ExactAt(data, name)
           holding == HoldingAt(data, name)
       IN IF exact # {}
          THEN LET e == data[Least(exact)]
                   k == IF Len(e.areas) < 3 THEN Len(e.areas) ELSE 3
               IN /\ shown.kind = "entry"
                  /\ shown.code = e.key
                  /\ shown.head = <<e.pref, e.city, Len(e.areas)>>
                  /\ shown.picks \subseteq {e.areas[j] : j \in 1..Len(e.areas)}
                  /\ Cardinality(shown.picks) = k
          ELSE IF holding # {}
          THEN /\ shown.kind = "candidates"
               /\ shown.code = <<>> /\ shown.picks = {}
               /\ Len(shown.names) >= 1 /\ Len(shown.names) <= 20
               /\ \A j \in 1..Len(shown.names) :
                    \E i \in holding : data[i].city = shown.names[j]
          ELSE shown = Printed("notfound", <<>>, <<>>, <<>>, {})

\* More than 20 names hold the query, and 20 are listed.
C7_Witness ==
  /\ qpc = "prompt"
  /\ line = <<"S">>
  /\ Cardinality({data[i].city : i \in HoldingAt(data, <<"S">>)}) > 20
  /\ shown.kind = "candidates"
  /\ Len(shown.names) = 20

\* C8: the loop ends when the operator enters q, quit or exit (any letter
\* case, surrounding whitespace ignored) or at end-of-input, and only then; a
\* blank line prints nothing and is followed by a prompt; any other line is
\* handled and followed by a prompt.
C8_LoopEnds ==
  /\ line = EOF => qpc = "eof_error"
  /\ IsLine(line) /\ SaidQuit(line) => qpc = "exited"
  /\ IsLine(line) /\ SaidBlank(line) => qpc = "prompt" /\ shown = Nothing
  /\ IsLine(line) /\ ~SaidBlank(line) /\ ~SaidQuit(line)
       => qpc = "prompt" /\ shown.kind \in {"entry", "candidates", "notfound"}
  /\ qpc \in {"exited", "eof_error"} => ~ENABLED QueryNext

C8_Witness ==
  /\ qpc = "exited"
  /\ line = <<"Q", "u", "I", "t">>

====
